---- MODULE Spec2Model ----
(***************************************************************************)
(* The matrix-reduction phase of the Hungarian method as implemented in    *)
(* hungarian_loss/steps.py: reduce_rows, reduce_cols, scratch_matrix,      *)
(* is_optimal_assignment, shift_zeros and the reduce_matrix loop.          *)
(*                                                                         *)
(* A tensor of shape (rows, cols) is a sequence of rows, each a sequence   *)
(* of cells; the leading batch axis of the cost matrix has size 1 and is   *)
(* dropped.  The row mask has shape (n, 1) and the column mask has shape   *)
(* (1, n), as in the source, and element-wise operations broadcast.        *)
(* Cell values are float16 numbers with integer values: every arithmetic   *)
(* result is rounded the way the float16 format rounds it.                 *)
(***************************************************************************)
EXTENDS Integers, Sequences, FiniteSets, TLC

(***************************************************************************)
(* Bounds of the model.                                                    *)
(***************************************************************************)
\* largest dimension of an input matrix
MaxN == 4
\* cells of an input matrix hold 0..MaxVal ...
MaxVal == 2
\* ... and only its last MaxFree cells, in row-major order, hold non-zero values
MaxFree == 7
\* an input matrix of dimension at most MaxDenseN holds -MaxAbs..MaxAbs in
\* every cell
MaxDenseN == 2
MaxAbs == 1

(***************************************************************************)
(* Program constants.                                                      *)
(***************************************************************************)
ZERO == 0
ONE == 1
\* tf.float16.max
FLOAT16_MAX == 65504
\* what a float16 result of magnitude 65520 or more becomes (infinity)
FLOAT16_INF == 65536

VARIABLES
    input,                 \* the argument of reduce_matrix
    pc,                    \* position in reduce_matrix
    matrix,                \* loop variables of the outer tf.while_loop
    scratched_rows_mask,
    scratched_cols_mask,
    new_matrix,            \* local of reduce_matrix.body
    zeros_mask,            \* loop variables of the tf.while_loop of
    rows_mask,             \*   scratch_matrix
    cols_mask,
    outline_min_value,     \* delta of the last shift_zeros
    iterations,            \* executions of reduce_matrix.body
    shifts,                \* invocations of shift_zeros
    first,                 \* result of reduce_matrix on the original input,
                           \*   once reduce_matrix runs again on its result
    verdict,               \* result of a call of is_optimal_assignment on
                           \*   its own
    scratch_steps          \* executions of scratch_matrix.body in the
                           \*   current call of scratch_matrix

vars == <<input, pc, matrix, scratched_rows_mask, scratched_cols_mask,
          new_matrix, zeros_mask, rows_mask, cols_mask, outline_min_value,
          iterations, shifts, first, verdict, scratch_steps>>

(***************************************************************************)
(* Tensors.                                                                *)
(***************************************************************************)
NumRows(t) == Len(t)

NumCols(t) == Len(t[1])

\* t[i][j] under broadcasting: an axis of size 1 is repeated
At(t, i, j) ==
    t[IF NumRows(t) = 1 THEN 1 ELSE i][IF NumCols(t) = 1 THEN 1 ELSE j]

Larger(a, b) == IF a >= b THEN a ELSE b

SetMin(S) == CHOOSE x \in S : \A y \in S : x <= y

SetMax(S) == CHOOSE x \in S : \A y \in S : x >= y

\* the tensor of shape (r, c) whose cell (i, j) is Cell(i, j)
Tensor(r, c, Cell(_, _)) ==
    SubSeq([i \in 1..r |-> SubSeq([j \in 1..c |-> Cell(i, j)], 1, c)], 1, r)

\* the same for an element-wise operation on two tensors, which broadcasts
Elementwise(a, b, Op(_, _)) ==
    Tensor(Larger(NumRows(a), NumRows(b)), Larger(NumCols(a), NumCols(b)),
           LAMBDA i, j : Op(At(a, i, j), At(b, i, j)))

\* tf.zeros(shape, tf.bool)
zeros(r, c) == Tensor(r, c, LAMBDA i, j : FALSE)

logical_and(a, b) == Elementwise(a, b, LAMBDA x, y : x /\ y)

logical_or(a, b) == Elementwise(a, b, LAMBDA x, y : x \/ y)

logical_not(a) == Tensor(NumRows(a), NumCols(a), LAMBDA i, j : ~a[i][j])

\* tf.reduce_any
reduce_any(a) == \E i \in 1..NumRows(a) : \E j \in 1..NumCols(a) : a[i][j]

\* tf.cast(mask, tf.float16)
cast_mask(a) ==
    Tensor(NumRows(a), NumCols(a),
           LAMBDA i, j : IF a[i][j] THEN ONE ELSE ZERO)

\* spacing of the float16 numbers around a magnitude v < 65536
Ulp(v) ==
    IF v < 2048 THEN 1
    ELSE IF v < 4096 THEN 2
    ELSE IF v < 8192 THEN 4
    ELSE IF v < 16384 THEN 8
    ELSE IF v < 32768 THEN 16
    ELSE 32

\* round a non-negative integer to float16: nearest, ties to even
RoundMagnitude(v) ==
    IF v >= 65520 THEN FLOAT16_INF
    ELSE LET u == Ulp(v)
             q == v \div u
             r == v % u
         IN  IF 2 * r < u THEN q * u
             ELSE IF 2 * r > u THEN (q + 1) * u
             ELSE IF q % 2 = 0 THEN q * u
             ELSE (q + 1) * u

\* the float16 nearest to the integer v
ToFloat16(v) == IF v >= 0 THEN RoundMagnitude(v) ELSE 0 - RoundMagnitude(0 - v)

\* element-wise float16 arithmetic with broadcasting
add(a, b) == Elementwise(a, b, LAMBDA x, y : ToFloat16(x + y))

subtract(a, b) == Elementwise(a, b, LAMBDA x, y : ToFloat16(x - y))

multiply(a, b) == Elementwise(a, b, LAMBDA x, y : ToFloat16(x * y))

\* a scalar as a tensor of shape (1, 1)
scalar(x) == <<<<x>>>>

\* tf.reduce_min / tf.reduce_max over every cell
reduce_min(a) ==
    SetMin({a[i][j] : i \in 1..NumRows(a), j \in 1..NumCols(a)})

reduce_max(a) ==
    SetMax({a[i][j] : i \in 1..NumRows(a), j \in 1..NumCols(a)})

\* tf.reduce_sum over every cell
RECURSIVE SumSeq(_)
SumSeq(s) == IF s = <<>> THEN 0 ELSE Head(s) + SumSeq(Tail(s))

reduce_sum(a) == ToFloat16(SumSeq([i \in 1..NumRows(a) |-> SumSeq(a[i])]))

(***************************************************************************)
(* reduce_rows, reduce_cols                                                *)
(***************************************************************************)
\* row_minima taking the minimum of the whole matrix for every row
row_minima_global(m) == Tensor(NumRows(m), 1, LAMBDA i, j : reduce_min(m))

\* tf.reshape(tf.reduce_min(matrix, axis=2), (-1, 1)): shape (rows, 1)
row_minima(m) ==
    Tensor(NumRows(m), 1,
           LAMBDA i, j : SetMin({m[i][k] : k \in 1..NumCols(m)}))

\* tf.reduce_min(matrix, axis=1): shape (1, cols)
col_minima(m) ==
    Tensor(1, NumCols(m),
           LAMBDA i, j : SetMin({m[k][j] : k \in 1..NumRows(m)}))

reduce_rows(m) == subtract(m, row_minima(m))

\* reduce_cols subtracting the minimum of the whole matrix
reduce_cols_global(m) == subtract(m, scalar(reduce_min(m)))

reduce_cols(m) == subtract(m, col_minima(m))

(***************************************************************************)
(* The mask primitives of hungarian_loss/ops.py                           *)
(***************************************************************************)
\* number of residual zeros of each row: shape (rows, 1)
count_zeros_in_rows(zm) ==
    Tensor(NumRows(zm), 1,
           LAMBDA i, j : Cardinality({k \in 1..NumCols(zm) : zm[i][k]}))

\* number of residual zeros of each column: shape (1, cols)
count_zeros_in_cols(zm) ==
    Tensor(1, NumCols(zm),
           LAMBDA i, j : Cardinality({k \in 1..NumRows(zm) : zm[k][j]}))

\* the first cell, in row-major order, holding the largest value (argmax)
ArgMax(t) ==
    LET largest == reduce_max(t)
        at == {<<i, j>> \in (1..NumRows(t)) \X (1..NumCols(t)) :
                    t[i][j] = largest}
    IN  CHOOSE c \in at : \A d \in at : c[1] <= d[1] /\ c[2] <= d[2]

\* mask of shape (rows, 1) marking the one row with the most zeros
get_row_mask_with_max_zeros(zm) ==
    LET counts == count_zeros_in_rows(zm)
        chosen == ArgMax(counts)
    IN  Tensor(NumRows(counts), NumCols(counts),
               LAMBDA i, j : <<i, j>> = chosen)

\* mask of shape (1, cols) marking the one column with the most zeros
get_col_mask_with_max_zeros(zm) ==
    LET counts == count_zeros_in_cols(zm)
        chosen == ArgMax(counts)
    IN  Tensor(NumRows(counts), NumCols(counts),
               LAMBDA i, j : <<i, j>> = chosen)

\* a line mask broadcast to every cell of its lines
expand_item_mask(mask) ==
    LET k == Larger(NumRows(mask), NumCols(mask))
    IN  Tensor(k, k, LAMBDA i, j : At(mask, i, j))

(***************************************************************************)
(* scratch_matrix: the functions of its tf.while_loop                      *)
(***************************************************************************)
\* tf.math.equal(matrix, ZERO)
equal_zero(m) ==
    Tensor(NumRows(m), NumCols(m), LAMBDA i, j : m[i][j] = ZERO)

\* scratch_row that leaves the zeros of the row in the zeros mask
scratch_row_keeps_zeros(zm, rm, cm) ==
    LET scratched_row_mask == get_row_mask_with_max_zeros(zm)
    IN  <<zm, logical_or(rm, scratched_row_mask), cm>>

\* <<new zeros mask, new rows mask, new columns mask>>
scratch_row(zm, rm, cm) ==
    LET scratched_row_mask == get_row_mask_with_max_zeros(zm)
    IN  <<logical_and(zm, logical_not(expand_item_mask(scratched_row_mask))),
          logical_or(rm, scratched_row_mask),
          cm>>

\* scratch_col that removes the zeros of the column and does not mark it
scratch_col_unmarked(zm, rm, cm) ==
    LET scratched_col_mask == get_col_mask_with_max_zeros(zm)
    IN  <<logical_and(zm, logical_not(expand_item_mask(scratched_col_mask))),
          rm,
          cm>>

scratch_col(zm, rm, cm) ==
    LET scratched_col_mask == get_col_mask_with_max_zeros(zm)
    IN  <<logical_and(zm, logical_not(expand_item_mask(scratched_col_mask))),
          rm,
          logical_or(cm, scratched_col_mask)>>

\* rows_win with a tie going to the rows
rows_win_or_tie(zm) ==
    reduce_max(count_zeros_in_rows(zm)) >= reduce_max(count_zeros_in_cols(zm))

\* the predicate of tf.cond in body
rows_win(zm) ==
    reduce_max(count_zeros_in_rows(zm)) > reduce_max(count_zeros_in_cols(zm))

scratch_body(zm, rm, cm) ==
    IF rows_win(zm) THEN scratch_row(zm, rm, cm) ELSE scratch_col(zm, rm, cm)

\* scratch_condition with tf.reduce_all for tf.reduce_any
scratch_condition_all(zm) ==
    \A i \in 1..NumRows(zm) : \A j \in 1..NumCols(zm) : zm[i][j]

scratch_condition(zm) == reduce_any(zm)

(***************************************************************************)
(* is_optimal_assignment                                                   *)
(***************************************************************************)
\* shapes_agree without the check
shapes_agree_unchecked(rm, cm) == TRUE

\* assert scratched_rows_mask.shape[0] == scratched_cols_mask.shape[1]
shapes_agree(rm, cm) == NumRows(rm) = NumCols(cm)

\* number_of_lines_covering_zeros without the marked columns
number_of_lines_covering_zeros_rows(rm, cm) ==
    ToFloat16(reduce_sum(cast_mask(rm)))

number_of_lines_covering_zeros(rm, cm) ==
    ToFloat16(reduce_sum(cast_mask(rm)) + reduce_sum(cast_mask(cm)))

\* is_optimal_assignment accepting n lines or more
is_optimal_assignment_at_least(rm, cm) ==
    ToFloat16(NumRows(rm)) <= number_of_lines_covering_zeros(rm, cm)

is_optimal_assignment(rm, cm) ==
    ToFloat16(NumRows(rm)) = number_of_lines_covering_zeros(rm, cm)

(***************************************************************************)
(* shift_zeros                                                             *)
(***************************************************************************)
\* cross_mask taking the cells of any marked line
cross_mask_any(rm, cm) == cast_mask(logical_or(rm, cm))

cross_mask(rm, cm) == cast_mask(logical_and(rm, cm))

inline_mask(rm, cm) ==
    cast_mask(logical_or(logical_and(rm, logical_not(cm)),
                         logical_and(logical_not(rm), cm)))

outline_mask(rm, cm) == cast_mask(logical_not(logical_or(rm, cm)))

\* shift_delta taking the largest outline value
shift_delta_largest(m, rm, cm) ==
    reduce_max(multiply(m, outline_mask(rm, cm)))

shift_delta(m, rm, cm) ==
    reduce_min(add(multiply(subtract(scalar(ONE), outline_mask(rm, cm)),
                            scalar(FLOAT16_MAX)),
                   multiply(m, outline_mask(rm, cm))))

\* shift_zeros leaving the cross cells as they are
shift_zeros_no_cross(m, rm, cm) ==
    LET delta == scalar(shift_delta(m, rm, cm))
        cross_matrix == multiply(m, cross_mask(rm, cm))
        inline_matrix == multiply(m, inline_mask(rm, cm))
        outline_matrix == subtract(multiply(m, outline_mask(rm, cm)),
                                   multiply(delta, outline_mask(rm, cm)))
    IN  add(cross_matrix, add(inline_matrix, outline_matrix))

shift_zeros(m, rm, cm) ==
    LET delta == scalar(shift_delta(m, rm, cm))
        cross_matrix == add(multiply(m, cross_mask(rm, cm)),
                            multiply(delta, cross_mask(rm, cm)))
        inline_matrix == multiply(m, inline_mask(rm, cm))
        outline_matrix == subtract(multiply(m, outline_mask(rm, cm)),
                                   multiply(delta, outline_mask(rm, cm)))
    IN  add(cross_matrix, add(inline_matrix, outline_matrix))

(***************************************************************************)
(* Input matrices.                                                         *)
(***************************************************************************)
\* the matrix of the docstrings
Example == <<<<30, 25, 10>>, <<15, 10, 20>>, <<25, 20, 15>>>>

\* the same costs, each lowered by 20
NegativeExample == <<<<10, 5, -10>>, <<-5, -10, 0>>, <<5, 0, -5>>>>

\* a 4 x 4 matrix whose zeros have a perfect assignment, and for which
\* scratch_matrix marks five lines
Stuck ==
    <<<<0, 0, 0, 0>>, <<0, 0, 1, 1>>, <<0, 1, 0, 1>>, <<0, 1, 1, 0>>>>

\* a 4 x 4 matrix for which scratch_matrix first marks five lines, and four
\* lines after shift_zeros
Unmatched ==
    <<<<0, 0, 0, 0>>, <<0, 0, 0, 1>>, <<0, 1, 1, 0>>, <<1, 0, 1, 0>>>>

\* the row-major positions of the cells of an n x n matrix that are free
FreeCells(n) == {k \in 1..(n * n) : k > n * n - MaxFree}

\* n x n matrices of 0..MaxVal, zero outside their last MaxFree cells
SparseInputs(n) ==
    {[i \in 1..n |-> [j \in 1..n |->
        IF (i - 1) * n + j \in FreeCells(n) THEN v[(i - 1) * n + j] ELSE 0]] :
            v \in [FreeCells(n) -> 0..MaxVal]}

\* n x n matrices of -MaxAbs..MaxAbs
DenseInputs(n) == [1..n -> [1..n -> (0 - MaxAbs)..MaxAbs]]

Inputs ==
    {Example, NegativeExample, Stuck, Unmatched}
    \cup UNION {SparseInputs(n) : n \in 1..MaxN}
    \cup UNION {DenseInputs(n) : n \in 1..MaxDenseN}

(***************************************************************************)
(* reduce_matrix                                                           *)
(***************************************************************************)
\* the counters stop counting here
CountCap == MaxN * MaxN + 1

Count(c) == IF c < CountCap THEN c + 1 ELSE c

Init ==
    /\ input \in Inputs
    /\ pc = "condition"
    /\ matrix = input
    /\ scratched_rows_mask = zeros(NumRows(input), 1)
    /\ scratched_cols_mask = zeros(1, NumCols(input))
    /\ new_matrix = <<>>
    /\ zeros_mask = <<>>
    /\ rows_mask = <<>>
    /\ cols_mask = <<>>
    /\ outline_min_value = 0
    /\ iterations = 0
    /\ shifts = 0
    /\ first = <<>>
    /\ verdict = FALSE
    /\ scratch_steps = 0

\* condition of the outer loop: the cover is not optimal, run the body
LoopContinue ==
    /\ pc = "condition"
    /\ shapes_agree(scratched_rows_mask, scratched_cols_mask)
    /\ ~is_optimal_assignment(scratched_rows_mask, scratched_cols_mask)
    /\ pc' = "reduce_rows"
    /\ UNCHANGED <<input, matrix, scratched_rows_mask, scratched_cols_mask,
                   new_matrix, zeros_mask, rows_mask, cols_mask,
                   outline_min_value, iterations, shifts, first, verdict,
                   scratch_steps>>

\* condition of the outer loop: the cover is optimal, return the matrix
LoopExit ==
    /\ pc = "condition"
    /\ shapes_agree(scratched_rows_mask, scratched_cols_mask)
    /\ is_optimal_assignment(scratched_rows_mask, scratched_cols_mask)
    /\ pc' = "return"
    /\ UNCHANGED <<input, matrix, scratched_rows_mask, scratched_cols_mask,
                   new_matrix, zeros_mask, rows_mask, cols_mask,
                   outline_min_value, iterations, shifts, first, verdict,
                   scratch_steps>>

\* body: new_matrix = reduce_rows(matrix)
ReduceRows ==
    /\ pc = "reduce_rows"
    /\ new_matrix' = reduce_rows(matrix)
    /\ iterations' = Count(iterations)
    /\ pc' = "reduce_cols"
    /\ UNCHANGED <<input, matrix, scratched_rows_mask, scratched_cols_mask,
                   zeros_mask, rows_mask, cols_mask, outline_min_value,
                   shifts, first, verdict, scratch_steps>>

\* body: new_matrix = reduce_cols(new_matrix)
ReduceCols ==
    /\ pc = "reduce_cols"
    /\ new_matrix' = reduce_cols(new_matrix)
    /\ pc' = "scratch_matrix"
    /\ UNCHANGED <<input, matrix, scratched_rows_mask, scratched_cols_mask,
                   zeros_mask, rows_mask, cols_mask, outline_min_value,
                   iterations, shifts, first, verdict, scratch_steps>>

\* scratch_matrix: the initial loop variables of its loop
ScratchStart ==
    /\ pc = "scratch_matrix"
    /\ zeros_mask' = equal_zero(new_matrix)
    /\ rows_mask' = zeros(NumRows(new_matrix), 1)
    /\ cols_mask' = zeros(1, NumCols(new_matrix))
    /\ scratch_steps' = 0
    /\ pc' = "scratch_loop"
    /\ UNCHANGED <<input, matrix, scratched_rows_mask, scratched_cols_mask,
                   new_matrix, outline_min_value, iterations, shifts, first,
                   verdict>>

\* scratch_matrix: one execution of the loop body
ScratchStep ==
    /\ pc = "scratch_loop"
    /\ scratch_condition(zeros_mask)
    /\ LET next == scratch_body(zeros_mask, rows_mask, cols_mask)
       IN  /\ zeros_mask' = next[1]
           /\ rows_mask' = next[2]
           /\ cols_mask' = next[3]
    /\ scratch_steps' = Count(scratch_steps)
    /\ UNCHANGED <<input, pc, matrix, scratched_rows_mask,
                   scratched_cols_mask, new_matrix, outline_min_value,
                   iterations, shifts, first, verdict>>

\* scratch_matrix: the loop ends and the masks are returned
ScratchReturn ==
    /\ pc = "scratch_loop"
    /\ ~scratch_condition(zeros_mask)
    /\ pc' = "is_optimal"
    /\ UNCHANGED <<input, matrix, scratched_rows_mask, scratched_cols_mask,
                   new_matrix, zeros_mask, rows_mask, cols_mask,
                   outline_min_value, iterations, shifts, first, verdict,
                   scratch_steps>>

\* BodyOptimal returning the matrix it was given, not the reduced one
BodyOptimal_unreduced ==
    /\ pc = "is_optimal"
    /\ is_optimal_assignment(rows_mask, cols_mask)
    /\ scratched_rows_mask' = rows_mask
    /\ scratched_cols_mask' = cols_mask
    /\ pc' = "condition"
    /\ UNCHANGED <<input, matrix, new_matrix, zeros_mask, rows_mask,
                   cols_mask, outline_min_value, iterations, shifts, first,
                   verdict, scratch_steps>>

\* body: the cover is optimal, the reduced matrix is the result
BodyOptimal ==
    /\ pc = "is_optimal"
    /\ shapes_agree(rows_mask, cols_mask)
    /\ is_optimal_assignment(rows_mask, cols_mask)
    /\ matrix' = new_matrix
    /\ scratched_rows_mask' = rows_mask
    /\ scratched_cols_mask' = cols_mask
    /\ pc' = "condition"
    /\ UNCHANGED <<input, new_matrix, zeros_mask, rows_mask, cols_mask,
                   outline_min_value, iterations, shifts, first, verdict,
                   scratch_steps>>

\* body: the cover is not optimal, shift_zeros
BodyShift ==
    /\ pc = "is_optimal"
    /\ shapes_agree(rows_mask, cols_mask)
    /\ ~is_optimal_assignment(rows_mask, cols_mask)
    /\ matrix' = shift_zeros(new_matrix, rows_mask, cols_mask)
    /\ scratched_rows_mask' = rows_mask
    /\ scratched_cols_mask' = cols_mask
    /\ outline_min_value' = shift_delta(new_matrix, rows_mask, cols_mask)
    /\ shifts' = Count(shifts)
    /\ pc' = "condition"
    /\ UNCHANGED <<input, new_matrix, zeros_mask, rows_mask, cols_mask,
                   iterations, first, verdict, scratch_steps>>

\* reduce_matrix is called again, on the matrix it returned
Again ==
    /\ pc = "return"
    /\ first = <<>>
    /\ first' = matrix
    /\ scratched_rows_mask' = zeros(NumRows(matrix), 1)
    /\ scratched_cols_mask' = zeros(1, NumCols(matrix))
    /\ iterations' = 0
    /\ shifts' = 0
    /\ pc' = "condition"
    /\ UNCHANGED <<input, matrix, new_matrix, zeros_mask, rows_mask,
                   cols_mask, outline_min_value, verdict, scratch_steps>>

Next ==
    \/ LoopContinue
    \/ LoopExit
    \/ ReduceRows
    \/ ReduceCols
    \/ ScratchStart
    \/ ScratchStep
    \/ ScratchReturn
    \/ BodyOptimal
    \/ BodyShift

Spec == Init /\ [][Next]_vars

\* reduce_matrix, and then reduce_matrix on the matrix it returned
NextAgain ==
    \/ LoopContinue
    \/ LoopExit
    \/ ReduceRows
    \/ ReduceCols
    \/ ScratchStart
    \/ ScratchStep
    \/ ScratchReturn
    \/ BodyOptimal
    \/ BodyShift
    \/ Again

SpecAgain == Init /\ [][NextAgain]_vars

(***************************************************************************)
(* is_optimal_assignment on its own, on any pair of masks                  *)
(***************************************************************************)
\* masks of shape (r, c)
Masks(r, c) == [1..r -> [1..c -> BOOLEAN]]

InitMasks ==
    /\ \E n \in 1..MaxN :
        /\ scratched_rows_mask \in Masks(n, 1)
        /\ scratched_cols_mask \in Masks(1, n)
    /\ pc = "is_optimal_assignment"
    /\ input = <<>>
    /\ matrix = <<>>
    /\ new_matrix = <<>>
    /\ zeros_mask = <<>>
    /\ rows_mask = <<>>
    /\ cols_mask = <<>>
    /\ outline_min_value = 0
    /\ iterations = 0
    /\ shifts = 0
    /\ first = <<>>
    /\ verdict = FALSE
    /\ scratch_steps = 0

IsOptimalAssignment ==
    /\ pc = "is_optimal_assignment"
    /\ shapes_agree(scratched_rows_mask, scratched_cols_mask)
    /\ verdict' = is_optimal_assignment(scratched_rows_mask,
                                        scratched_cols_mask)
    /\ pc' = "tested"
    /\ UNCHANGED <<input, matrix, scratched_rows_mask, scratched_cols_mask,
                   new_matrix, zeros_mask, rows_mask, cols_mask,
                   outline_min_value, iterations, shifts, first,
                   scratch_steps>>

NextMasks == IsOptimalAssignment

SpecMasks == InitMasks /\ [][NextMasks]_vars

(***************************************************************************)
(* Matrices and masks of any shape: the assertion of is_optimal_assignment *)
(***************************************************************************)
\* the r x c matrix that counts its cells, row by row, from base
Ramp(r, c, base) ==
    Tensor(r, c, LAMBDA i, j : base + (i - 1) * c + (j - 1))

ShapedInputs ==
    {Ramp(r, c, base) : r \in 1..MaxN, c \in 1..MaxN, base \in 0..MaxVal}

InitShapes ==
    /\ \/ /\ input \in {Example} \cup ShapedInputs
          /\ pc = "condition"
          /\ scratched_rows_mask = zeros(NumRows(input), 1)
          /\ scratched_cols_mask = zeros(1, NumCols(input))
       \/ /\ input = <<>>
          /\ pc = "is_optimal_assignment"
          /\ \E r \in 1..MaxN, c \in 1..MaxN :
                /\ scratched_rows_mask \in Masks(r, 1)
                /\ scratched_cols_mask \in Masks(1, c)
    /\ matrix = input
    /\ new_matrix = <<>>
    /\ zeros_mask = <<>>
    /\ rows_mask = <<>>
    /\ cols_mask = <<>>
    /\ outline_min_value = 0
    /\ iterations = 0
    /\ shifts = 0
    /\ first = <<>>
    /\ verdict = FALSE
    /\ scratch_steps = 0

\* the assertion of is_optimal_assignment fails: AssertionError
AssertionError ==
    /\ pc \in {"condition", "is_optimal", "is_optimal_assignment"}
    /\ ~(IF pc = "is_optimal"
            THEN shapes_agree(rows_mask, cols_mask)
            ELSE shapes_agree(scratched_rows_mask, scratched_cols_mask))
    /\ pc' = "error"
    /\ UNCHANGED <<input, matrix, scratched_rows_mask, scratched_cols_mask,
                   new_matrix, zeros_mask, rows_mask, cols_mask,
                   outline_min_value, iterations, shifts, first, verdict,
                   scratch_steps>>

NextShapes ==
    \/ LoopContinue
    \/ LoopExit
    \/ ReduceRows
    \/ ReduceCols
    \/ ScratchStart
    \/ ScratchStep
    \/ ScratchReturn
    \/ BodyOptimal
    \/ BodyShift
    \/ IsOptimalAssignment
    \/ AssertionError

SpecShapes == InitShapes /\ [][NextShapes]_vars

(***************************************************************************)
(* shift_zeros on its own, on any square matrix and any pair of masks      *)
(***************************************************************************)
\* every integer of this magnitude or less is a float16
FLOAT16_EXACT == 2048

\* the n x n matrix with FLOAT16_EXACT on its diagonal, a ramp elsewhere
Wide(n, base) ==
    Tensor(n, n, LAMBDA i, j : IF i = j THEN FLOAT16_EXACT
                                        ELSE base + (i - 1) * n + j)

ShiftInputs ==
    {reduce_cols(reduce_rows(Example)), Stuck, Unmatched}
    \cup {Ramp(n, n, base) : n \in 1..MaxN, base \in 0..MaxVal}
    \cup {Wide(n, base) : n \in 1..MaxN, base \in 0..MaxVal}

InitShift ==
    /\ new_matrix \in ShiftInputs
    /\ rows_mask \in Masks(NumRows(new_matrix), 1)
    /\ cols_mask \in Masks(1, NumCols(new_matrix))
    /\ pc = "shift_zeros"
    /\ input = new_matrix
    /\ matrix = <<>>
    /\ scratched_rows_mask = <<>>
    /\ scratched_cols_mask = <<>>
    /\ zeros_mask = <<>>
    /\ outline_min_value = 0
    /\ iterations = 0
    /\ shifts = 0
    /\ first = <<>>
    /\ verdict = FALSE
    /\ scratch_steps = 0

\* matrix, scratched_rows_mask, scratched_cols_mask = shift_zeros(...)
ShiftZeros ==
    /\ pc = "shift_zeros"
    /\ matrix' = shift_zeros(new_matrix, rows_mask, cols_mask)
    /\ scratched_rows_mask' = rows_mask
    /\ scratched_cols_mask' = cols_mask
    /\ outline_min_value' = shift_delta(new_matrix, rows_mask, cols_mask)
    /\ shifts' = Count(shifts)
    /\ pc' = "shifted"
    /\ UNCHANGED <<input, new_matrix, zeros_mask, rows_mask, cols_mask,
                   iterations, first, verdict, scratch_steps>>

NextShift == ShiftZeros

SpecShift == InitShift /\ [][NextShift]_vars

(***************************************************************************)
(* Properties                                                              *)
(***************************************************************************)
\* dimension of the input matrix
N == NumRows(input)

MarkedRows(rm) == {i \in 1..NumRows(rm) : rm[i][1]}

MarkedCols(cm) == {j \in 1..NumCols(cm) : cm[1][j]}

\* number of lines of a cover
Lines(rm, cm) == Cardinality(MarkedRows(rm)) + Cardinality(MarkedCols(cm))

\* the zero cells of m contain one cell of every row and of every column
HasPerfectAssignment(m) ==
    \E p \in Permutations(1..NumRows(m)) :
        \A i \in 1..NumRows(m) : m[i][p[i]] = 0

NonNegative(m) ==
    \A i \in 1..NumRows(m) : \A j \in 1..NumCols(m) : m[i][j] >= 0

ZeroInEveryLine(m) ==
    /\ \A i \in 1..NumRows(m) : \E j \in 1..NumCols(m) : m[i][j] = 0
    /\ \A j \in 1..NumCols(m) : \E i \in 1..NumRows(m) : m[i][j] = 0

\* C1: the zero cells of the matrix reduce_matrix returns contain a perfect
\* assignment: n zero cells, no two in one row or in one column.
C1_ReturnedZerosHoldAssignment ==
    pc = "return" => HasPerfectAssignment(matrix)

\* C2: the outer loop of reduce_matrix executes its body at most n * n
\* times.
C2_AtMostNSquaredIterations ==
    iterations <= N * N

\* C3: after reduce_rows and then reduce_cols every row and every column of
\* the matrix holds a zero.
C3_ZeroInEveryRowAndColumn ==
    pc = "scratch_matrix" => ZeroInEveryLine(new_matrix)

\* a matrix with a negative cell, none of whose lines held a zero, has been
\* reduced
C3_Witness ==
    /\ pc = "scratch_matrix"
    /\ ~NonNegative(input)
    /\ \A i \in 1..N : \A j \in 1..N : input[i][j] # 0
    /\ iterations = 1

\* C4: every matrix that reduce_rows and reduce_cols produce, and every
\* matrix that shift_zeros produces, has no negative cell, whatever the
\* input.
C4_NonNegative ==
    /\ pc = "scratch_matrix" => NonNegative(new_matrix)
    /\ (pc = "condition" /\ iterations >= 1) => NonNegative(matrix)

\* shift_zeros has produced a matrix from an input with negative cells
C4_Witness ==
    /\ pc = "condition"
    /\ shifts = 1
    /\ ~NonNegative(input)
    /\ matrix # new_matrix

\* C5: when scratch_matrix returns, every zero cell of the matrix is in a
\* marked row or in a marked column.
C5_EveryZeroCovered ==
    pc = "is_optimal" =>
        \A i \in 1..N : \A j \in 1..N :
            new_matrix[i][j] = 0 => (rows_mask[i][1] \/ cols_mask[1][j])

\* scratch_matrix returns a cover of rows and of columns
C5_Witness ==
    /\ pc = "is_optimal"
    /\ MarkedRows(rows_mask) # {}
    /\ MarkedCols(cols_mask) # {}
    /\ \E i \in 1..N : \E j \in 1..N : new_matrix[i][j] # 0

ExampleRowReduced == <<<<20, 15, 0>>, <<5, 0, 10>>, <<10, 5, 0>>>>

ExampleReduced == <<<<15, 15, 0>>, <<0, 0, 10>>, <<5, 5, 0>>>>

ExampleColumnsOnly == <<<<15, 15, 0>>, <<0, 0, 10>>, <<10, 10, 5>>>>

ExampleShifted == <<<<10, 10, 0>>, <<0, 0, 15>>, <<0, 0, 0>>>>

ExampleRowsMask == <<<<FALSE>>, <<TRUE>>, <<FALSE>>>>

ExampleColsMask == <<<<FALSE, FALSE, TRUE>>>>

\* C7: on [[30,25,10],[15,10,20],[25,20,15]] reduce_matrix invokes
\* shift_zeros exactly once, with delta 5 and the masks rows
\* [false,true,false], columns [false,false,true]; shift_zeros produces
\* [[10,10,0],[0,0,15],[0,0,0]]; the next cover has 3 lines and the loop
\* returns that matrix.
C7_ExampleShiftedOnce ==
    input = Example =>
        /\ shifts <= 1
        /\ (pc = "condition" /\ shifts = 1 /\ iterations = 1) =>
                /\ outline_min_value = 5
                /\ scratched_rows_mask = ExampleRowsMask
                /\ scratched_cols_mask = ExampleColsMask
                /\ matrix = ExampleShifted
        /\ (pc = "is_optimal" /\ iterations = 2) =>
                /\ new_matrix = ExampleShifted
                /\ Lines(rows_mask, cols_mask) = 3
        /\ pc = "return" =>
                /\ matrix = ExampleShifted
                /\ shifts = 1
                /\ iterations = 2

\* reduce_matrix returns on the example, after a shift
C7_Witness ==
    /\ input = Example
    /\ pc = "return"
    /\ shifts = 1

\* C8 as stated: on [[30,25,10],[15,10,20],[25,20,15]] row reduction gives
\* [[20,15,0],[5,0,10],[10,5,0]], column reduction of that gives
\* [[15,15,0],[0,0,10],[10,10,5]], and the cover of the column-reduced matrix
\* is rows [false,true,false], columns [false,false,true]: 2 lines, not
\* optimal.
C8_ExampleReductionAsStated ==
    (input = Example /\ iterations = 1) =>
        /\ pc = "reduce_cols" => new_matrix = ExampleRowReduced
        /\ pc = "scratch_matrix" => new_matrix = ExampleColumnsOnly
        /\ pc = "is_optimal" =>
                /\ rows_mask = ExampleRowsMask
                /\ cols_mask = ExampleColsMask
                /\ ~is_optimal_assignment(rows_mask, cols_mask)

\* C8 amended: on [[30,25,10],[15,10,20],[25,20,15]] row reduction gives
\* [[20,15,0],[5,0,10],[10,5,0]], column reduction of that gives
\* [[15,15,0],[0,0,10],[5,5,0]], and the cover of the column-reduced matrix
\* is rows [false,true,false], columns [false,false,true]: 2 lines, not
\* optimal.
C8_ExampleReduction ==
    (input = Example /\ iterations = 1) =>
        /\ pc = "reduce_cols" => new_matrix = ExampleRowReduced
        /\ pc = "scratch_matrix" => new_matrix = ExampleReduced
        /\ pc = "is_optimal" =>
                /\ new_matrix = ExampleReduced
                /\ rows_mask = ExampleRowsMask
                /\ cols_mask = ExampleColsMask
                /\ Lines(rows_mask, cols_mask) = 2
                /\ ~is_optimal_assignment(rows_mask, cols_mask)

\* the first cover of the example has been built
C8_Witness ==
    /\ input = Example
    /\ iterations = 1
    /\ pc = "is_optimal"

\* C9: when reduce_matrix returned M, reduce_matrix on M reduces M to M,
\* builds a cover that is_optimal_assignment accepts, and returns M after one
\* execution of the body, without shift_zeros.
C9_IdempotentAtFixpoint ==
    first # <<>> =>
        /\ shifts = 0
        /\ iterations <= 1
        /\ pc = "scratch_matrix" => new_matrix = first
        /\ pc = "is_optimal" => is_optimal_assignment(rows_mask, cols_mask)
        /\ pc = "return" => (matrix = first /\ iterations = 1)

\* reduce_matrix has returned again, on a result that it had reached by
\* shift_zeros from a different input
C9_Witness ==
    /\ first # <<>>
    /\ pc = "return"
    /\ first # input
    /\ outline_min_value > 0

\* C10: on a 1 x 1 matrix [[x]] reduce_matrix executes its body exactly
\* once, never invokes shift_zeros, covers the zero with exactly one line and
\* returns [[0]].
C10_SingleCell ==
    N = 1 =>
        /\ shifts = 0
        /\ iterations <= 1
        /\ pc = "is_optimal" =>
                /\ new_matrix = <<<<0>>>>
                /\ Lines(rows_mask, cols_mask) = 1
        /\ pc = "return" => (matrix = <<<<0>>>> /\ iterations = 1)

\* reduce_matrix has returned on a 1 x 1 matrix whose cell was not zero
C10_Witness ==
    /\ N = 1
    /\ input[1][1] # 0
    /\ pc = "return"

\* C11: a matrix that is not square given to reduce_matrix, and masks of
\* different lengths given to is_optimal_assignment, end in an error at
\* entry: no reduction, cover or shift step runs and nothing is returned.
C11_RejectedAtEntry ==
    /\ (input # <<>> /\ NumRows(input) # NumCols(input)) =>
            /\ pc \in {"condition", "error"}
            /\ iterations = 0
            /\ shifts = 0
            /\ new_matrix = <<>>
            /\ zeros_mask = <<>>
    /\ (input = <<>> /\ NumRows(scratched_rows_mask)
                            # NumCols(scratched_cols_mask)) =>
            /\ pc \in {"is_optimal_assignment", "error"}
            /\ verdict = FALSE
    /\ pc = "error" => (iterations = 0 /\ shifts = 0)

\* reduce_matrix has failed on a matrix with more rows than columns
C11_Witness ==
    /\ pc = "error"
    /\ input # <<>>
    /\ NumRows(input) > NumCols(input)

\* some cell is in no marked row and in no marked column
HasOutline(rm, cm) ==
    /\ MarkedRows(rm) # 1..NumRows(rm)
    /\ MarkedCols(cm) # 1..NumCols(cm)

\* C12: when the zeros of a reduced matrix reached in reduce_matrix have a
\* perfect assignment, the cover scratch_matrix builds has exactly n lines
\* and is_optimal_assignment accepts it in that iteration.
C12_MatchingGivesNLines ==
    (pc = "is_optimal" /\ HasPerfectAssignment(new_matrix)) =>
        /\ Lines(rows_mask, cols_mask) = N
        /\ is_optimal_assignment(rows_mask, cols_mask)

\* C13: whenever reduce_matrix goes on to shift_zeros, some row and some
\* column are unmarked, so there is an outline cell.
C13_ShiftHasOutline ==
    (pc = "is_optimal" /\ ~is_optimal_assignment(rows_mask, cols_mask)) =>
        HasOutline(rows_mask, cols_mask)

\* C18: the cover built in an outer iteration has at least as many lines as
\* the cover built in the iteration before it.
C18_LinesNeverDecrease ==
    pc = "is_optimal" =>
        Lines(rows_mask, cols_mask)
            >= Lines(scratched_rows_mask, scratched_cols_mask)

\* C19: the cover scratch_matrix builds for a reduced square matrix has at
\* most n lines.
C19_AtMostNLines ==
    pc = "is_optimal" => Lines(rows_mask, cols_mask) <= N

\* classes of the cell (i, j) under a pair of masks
IsCross(rm, cm, i, j) == rm[i][1] /\ cm[1][j]

IsInline(rm, cm, i, j) == rm[i][1] # cm[1][j]

IsOutline(rm, cm, i, j) == ~rm[i][1] /\ ~cm[1][j]

Cells(m) == (1..NumRows(m)) \X (1..NumCols(m))

OutlineMin(m, rm, cm) ==
    SetMin({m[c[1]][c[2]] : c \in {d \in Cells(m) :
                                     IsOutline(rm, cm, d[1], d[2])}})

\* C14: a call of shift_zeros with masks under which no cell is outline ends
\* in an error and returns no matrix, so a call that has returned had an
\* outline cell.
C14_NoOutlineIsAnError ==
    pc = "shifted" => HasOutline(rows_mask, cols_mask)

\* the classification, the delta and the masks of a call of shift_zeros;
\* Shifted(v, d) is what the claim takes v + d to be
ShiftZerosContract(Shifted(_, _)) ==
    LET delta == OutlineMin(new_matrix, rows_mask, cols_mask)
        cm == cross_mask(rows_mask, cols_mask)
        im == inline_mask(rows_mask, cols_mask)
        om == outline_mask(rows_mask, cols_mask)
    IN  /\ outline_min_value = delta
        /\ \A c \in Cells(new_matrix) :
            LET i == c[1]
                j == c[2]
            IN  /\ cm[i][j] + im[i][j] + om[i][j] = ONE
                /\ (cm[i][j] = ONE) = IsCross(rows_mask, cols_mask, i, j)
                /\ (im[i][j] = ONE) = IsInline(rows_mask, cols_mask, i, j)
                /\ (om[i][j] = ONE) = IsOutline(rows_mask, cols_mask, i, j)
                /\ IsOutline(rows_mask, cols_mask, i, j) =>
                        matrix[i][j] = Shifted(new_matrix[i][j], 0 - delta)
                /\ IsCross(rows_mask, cols_mask, i, j) =>
                        matrix[i][j] = Shifted(new_matrix[i][j], delta)
                /\ IsInline(rows_mask, cols_mask, i, j) =>
                        matrix[i][j] = new_matrix[i][j]
        /\ scratched_rows_mask = rows_mask
        /\ scratched_cols_mask = cols_mask

Residual(zm) == {c \in Cells(zm) : zm[c[1]][c[2]]}

ResidualInRow(zm, i) == {c \in Residual(zm) : c[1] = i}

ResidualInCol(zm, j) == {c \in Residual(zm) : c[2] = j}

MaxRowCount(zm) ==
    SetMax({Cardinality(ResidualInRow(zm, i)) : i \in 1..NumRows(zm)})

MaxColCount(zm) ==
    SetMax({Cardinality(ResidualInCol(zm, j)) : j \in 1..NumCols(zm)})

\* a step of the loop of scratch_matrix
IsScratchStep == pc = "scratch_loop" /\ pc' = "scratch_loop"

\* C15: each step of the loop of scratch_matrix marks exactly one new line:
\* a row if and only if the largest count of residual zeros over the rows is
\* strictly greater than the largest over the columns, otherwise a column;
\* the line has the largest count among the lines of its kind, and exactly
\* its residual zeros leave the residual set.
C15_OneLinePerStep ==
    [][IsScratchStep =>
        LET new_rows == MarkedRows(rows_mask') \ MarkedRows(rows_mask)
            new_cols == MarkedCols(cols_mask') \ MarkedCols(cols_mask)
        IN  /\ Cardinality(new_rows) + Cardinality(new_cols) = 1
            /\ (new_rows # {}) <=>
                    (MaxRowCount(zeros_mask) > MaxColCount(zeros_mask))
            /\ \A i \in new_rows :
                    /\ Cardinality(ResidualInRow(zeros_mask, i))
                            = MaxRowCount(zeros_mask)
                    /\ Residual(zeros_mask') =
                            Residual(zeros_mask) \ ResidualInRow(zeros_mask, i)
            /\ \A j \in new_cols :
                    /\ Cardinality(ResidualInCol(zeros_mask, j))
                            = MaxColCount(zeros_mask)
                    /\ Residual(zeros_mask') =
                            Residual(zeros_mask) \ ResidualInCol(zeros_mask, j)
    ]_vars

\* the loop has marked a row and a column, and zeros are left
C15_Witness ==
    /\ pc = "scratch_loop"
    /\ scratch_steps >= 2
    /\ MarkedRows(rows_mask) # {}
    /\ MarkedCols(cols_mask) # {}
    /\ Residual(zeros_mask) # {}

\* C16: within one call of scratch_matrix, at every step of its loop, a
\* marked row or column stays marked and the residual zeros after the step
\* are a strict subset of those before it; the steps made and the zeros left
\* are together no more than the zero cells of the matrix, so the loop ends
\* within that many steps.
C16_ShrinkingResidual ==
    [][IsScratchStep =>
        /\ MarkedRows(rows_mask) \subseteq MarkedRows(rows_mask')
        /\ MarkedCols(cols_mask) \subseteq MarkedCols(cols_mask')
        /\ Residual(zeros_mask') \subseteq Residual(zeros_mask)
        /\ Residual(zeros_mask') # Residual(zeros_mask)
        /\ scratch_steps' = scratch_steps + 1
        /\ scratch_steps' + Cardinality(Residual(zeros_mask'))
                <= Cardinality(Residual(equal_zero(new_matrix)))
    ]_vars

\* a call of scratch_matrix has ended after as many steps as the matrix has
\* zero cells, and more than one
C16_Witness ==
    /\ pc = "is_optimal"
    /\ scratch_steps >= 2
    /\ scratch_steps = Cardinality(Residual(equal_zero(new_matrix)))
    /\ Lines(rows_mask, cols_mask) = scratch_steps

\* shift_zeros has just returned to reduce_matrix, from masks with an
\* outline cell
ShiftedWithOutline ==
    /\ pc = "condition"
    /\ shifts >= 1
    /\ ~is_optimal_assignment(scratched_rows_mask, scratched_cols_mask)
    /\ HasOutline(scratched_rows_mask, scratched_cols_mask)

\* C20: when reduce_matrix calls shift_zeros with at least one outline cell,
\* delta is strictly positive, the shifted matrix differs from the reduced
\* one, and some outline cell that was not zero is zero after the shift.
C20_PositiveDelta ==
    ShiftedWithOutline =>
        /\ outline_min_value > 0
        /\ matrix # new_matrix
        /\ \E c \in Cells(new_matrix) :
                /\ IsOutline(rows_mask, cols_mask, c[1], c[2])
                /\ new_matrix[c[1]][c[2]] # 0
                /\ matrix[c[1]][c[2]] = 0

\* shift_zeros has returned on a 4 x 4 matrix with a cover of rows and
\* columns
C20_Witness ==
    /\ ShiftedWithOutline
    /\ N = 4
    /\ MarkedRows(rows_mask) # {}
    /\ MarkedCols(cols_mask) # {}
====
